---- MODULE Spec2Model ----
(***************************************************************************)
(* State-machine model of serial-mux (src/serial-mux.cpp): main's startup  *)
(* and teardown, readThread (Ingress: physical port -> ptys), writeThread  *)
(* (Egress: ptys -> physical port), the SIGINT handler, and the            *)
(* environment around one process: the peer multiplexer that puts frames   *)
(* on the line, the applications that write to the ptys, and the kernel    *)
(* that accepts or refuses non-blocking writes.                            *)
(***************************************************************************)
EXTENDS Integers, Sequences, FiniteSets, TLC

(***************************************************************************)
(* Program constants.                                                      *)
(***************************************************************************)
cMaxDataSize ==
    1000

cMaxChannelId ==
    255

(***************************************************************************)
(* Bounds of the model.                                                    *)
(***************************************************************************)
\* Environment events in one run: frames the peer sends, application
\* writes to a pty (or inputs typed on stdin), writes the physical port
\* refuses or takes short.
MaxEnv ==
    2

\* Bytes readThread may write to handles before the model stops it (the
\* loop itself is bounded only by the 16-bit nbytes).
MaxOut ==
    3

(***************************************************************************)
(* Inputs.                                                                 *)
(***************************************************************************)
NoLink ==
    ""

Opt(id, link) ==
    [kind |-> "c", id |-> id, link |-> link]

HelpOpt ==
    [kind |-> "h", id |-> 0, link |-> NoLink]

\* The command lines main is started with: options in argv order, and
\* whether a serial port argument follows them.
CmdLines ==
    { [opts |-> <<Opt(20, "/tmp/ptyB"), Opt(10, "/tmp/ptyA"), Opt(20, "/tmp/ptyC")>>,
       port |-> TRUE],
      [opts |-> <<Opt(10, NoLink)>>, port |-> FALSE],
      [opts |-> <<Opt(10, NoLink), Opt(256, NoLink)>>, port |-> TRUE],
      [opts |-> <<Opt(0 - 1, NoLink)>>, port |-> TRUE],
      [opts |-> <<>>, port |-> TRUE],
      [opts |-> <<HelpOpt>>, port |-> TRUE] }

\* Channel ids the peer multiplexer has configured (30 is configured on
\* the peer only).
PeerIds ==
    {10, 20, 30}

\* The payload the peer's application wrote for the k-th frame on the line.
PeerPayload(c, k) ==
    <<60 + c + k>>

\* What the local application of channel c writes to its pty (an entry on
\* descriptor 0: input typed on stdin) as the j-th application write.
AppPayload(c, j) ==
    [i \in 1..(IF c = 10 THEN 5 ELSE 1) |-> (100 + c + j + i) % 256]

\* Values an uninitialised uint8_t may hold (a sample of 0..255).
UninitBytes ==
    {0, 1}

\* Descriptors the model names: 0 stdin, 3.. allocated by open/posix_openpt.
FdSet ==
    0..5

VARIABLES
    argv,             \* command line
    mainpc,           \* main's position
    optind,           \* getopt's index of the next option (1-based)
    status,           \* exit status of main (-1 while running)
    mit,              \* main's iterator over sVirtualPorts in the startPty loop
    sVirtualPorts,    \* std::map<uint8_t, ptyChan>
    terminateProcess, \* shutdown flag
    phys_tty,         \* descriptor of the physical port
    fds,              \* open descriptors of the process
    links,            \* symlinks created by startPty and not yet removed
    closed,           \* descriptors closed by shutdownVPorts
    rpc, rcid, rtmp, rnbytes, rchan,  \* readThread: position, cid, tmp, nbytes, chan
    rf,               \* readThread, current frame: bytes actually received
    wpc, wit,         \* writeThread: position, iterator of the for loop
    lastW,            \* writeThread: what the last poll of an endpoint did
    line,             \* bytes sent by the peer and not yet read by readThread
    tx,               \* bytes the physical port accepted from writeThread
    inq,              \* per descriptor: bytes written by the application, unread
    pout,             \* writes of readThread, in order: <<descriptor, byte>>
    sent,             \* per channel: payload bytes the peer put on the line
    nSent,            \* frames the peer has sent so far
    nApp,             \* application writes so far
    nShort,           \* refused or short writes of the physical port so far
    stdinKind,        \* "unknown", "tty" (reads block) or "eof" (reads return 0)
    codec             \* frame codec exercised on its own

vars ==
    << argv, mainpc, optind, status, mit, sVirtualPorts, terminateProcess,
       phys_tty, fds, links, closed, rpc, rcid, rtmp, rnbytes, rchan, rf,
       wpc, wit, lastW, line, tx, inq, pout, sent, nSent, nApp, nShort,
       stdinKind, codec >>

mainVars ==
    << argv, mainpc, optind, status, mit, phys_tty, fds, links, closed >>

readVars ==
    << rpc, rcid, rtmp, rnbytes, rchan, rf >>

writeVars ==
    << wpc, wit, lastW >>

envVars ==
    << line, sent, nSent, nApp, nShort >>

(***************************************************************************)
(* Helpers.                                                                *)
(***************************************************************************)
Min(S) ==
    CHOOSE x \in S : \A y \in S : x <= y

\* end() of the map, as an iterator value
EndIt ==
    cMaxChannelId + 1

\* begin(): std::map iterates in increasing key order
\* An iteration that stays on the entry it is at
NextKeyStay(m, k) ==
    k

\* An iteration that goes from the greatest key down
NextKeyDescending(m, k) ==
    IF \E x \in DOMAIN m : x < k
    THEN CHOOSE x \in DOMAIN m : x < k /\ \A y \in DOMAIN m : y < k => y <= x
    ELSE cMaxChannelId + 1

FirstKey(m) ==
    IF DOMAIN m = {} THEN EndIt ELSE Min(DOMAIN m)

\* ++it
NextKey(m, k) ==
    LET S == {x \in DOMAIN m : x > k}
    IN  IF S = {} THEN EndIt ELSE Min(S)

MapPut(m, k, v) ==
    [x \in (DOMAIN m) \cup {k} |-> IF x = k THEN v ELSE m[x]]

\* A registry whose insertion replaces the entry of a key that exists
EmplaceOverwrite(m, n, chan) ==
    MapPut(m, n, chan)

\* sVirtualPorts.emplace(std::make_pair(n, chan)): no effect when the key exists
Emplace(m, n, chan) ==
    IF n \in DOMAIN m THEN m ELSE MapPut(m, n, chan)

\* A value-initialised ptyChan: what operator[] inserts for a missing key
ValueInitChan ==
    [channelId |-> 0, pty |-> 0, linkPath |-> NoLink]

\* sVirtualPorts[cid]: operator[] inserts a value-initialised entry when
\* the key is absent
Subscript(m, cid) ==
    IF cid \in DOMAIN m THEN m ELSE MapPut(m, cid, ValueInitChan)

\* The lowest unused descriptor, as open() and posix_openpt() return it
NewFd(open) ==
    Min({n \in FdSet : n >= 3 /\ n \notin open})

\* nbytes = (tmp & 0xFF) << 8, stored in a uint16_t
LenHi(b) ==
    ((b % 256) * 256) % 65536

\* A length accumulated in eight bits
LenAdd8(nb, b) ==
    (nb + (b % 256)) % 256

\* nbytes += (tmp & 0xFF), in a uint16_t
LenAdd(nb, b) ==
    (nb + (b % 256)) % 65536

\* A header with the length bytes least-significant first
EgressHeaderLsbFirst(cid, n) ==
    << cid, (n % 65536) % 256, ((n % 65536) \div 256) % 256 >>

\* nbytes = (uint16_t)tmp; then the bytes written ahead of the payload:
\* cid, (nbytes >> 8) & 0xFF, nbytes & 0xFF
EgressHeader(cid, n) ==
    << cid, ((n % 65536) \div 256) % 256, (n % 65536) % 256 >>

Take(s, n) ==
    SubSeq(s, 1, IF n < Len(s) THEN n ELSE Len(s))

Drop(s, n) ==
    SubSeq(s, n + 1, Len(s))

\* s without its i-th element
Without(s, i) ==
    SubSeq(s, 1, i - 1) \o SubSeq(s, i + 1, Len(s))

NoFrame ==
    [hdr |-> 0, got |-> 0, len |-> 0, unr |-> FALSE, st |-> "none", pay |-> << >>]

NoPoll ==
    [cid |-> 0, n |-> 0, data |-> <<>>, req |-> <<>>, acc |-> <<>>,
     short |-> 0, reported |-> FALSE, txLen |-> 0, fd |-> 0, flag |-> FALSE]

\* Environment events so far
EnvEvents ==
    nSent + nApp + nShort

NoCodec ==
    [st |-> "none", c |-> 0, payload |-> <<>>, frame |-> <<>>,
     dcid |-> 0, dlen |-> 0, dpayload |-> <<>>]

(***************************************************************************)
(* Initial state: main has been entered, nothing is open.                  *)
(***************************************************************************)
InitProcess ==
    /\ mainpc = "getopt"
    /\ optind = 1
    /\ status = 0 - 1
    /\ mit = EndIt
    /\ sVirtualPorts = << >>
    /\ terminateProcess = FALSE
    /\ phys_tty = 0 - 1
    /\ fds = {0, 1, 2}
    /\ links = {}
    /\ closed = {}
    /\ rpc = "off" /\ rcid = 0 /\ rtmp = 0 /\ rnbytes = 0 /\ rchan = 0
    /\ rf = NoFrame
    /\ wpc = "off" /\ wit = EndIt
    /\ lastW = NoPoll
    /\ line = << >> /\ tx = << >>
    /\ inq = [fd \in FdSet |-> << >>]
    /\ pout = << >>
    /\ sent = [c \in PeerIds |-> << >>]
    /\ nSent = 0
    /\ nApp = 0
    /\ nShort = 0
    /\ stdinKind = "unknown"

Init ==
    /\ argv \in CmdLines
    /\ InitProcess
    /\ codec = NoCodec

(***************************************************************************)
(* main                                                                    *)
(***************************************************************************)
Exit(code) ==
    /\ mainpc' = "exit"
    /\ status' = code

\* One iteration of the getopt loop (lines 173-210).
MainGetopt ==
    /\ mainpc = "getopt"
    /\ optind <= Len(argv.opts)
    /\ LET o == argv.opts[optind]
       IN  IF o.kind = "h"
           THEN /\ Exit(0)
                /\ UNCHANGED << optind, sVirtualPorts >>
           ELSE IF o.id > cMaxChannelId \/ o.id < 0
           THEN /\ Exit(1)
                /\ UNCHANGED << optind, sVirtualPorts >>
           ELSE /\ sVirtualPorts' =
                      Emplace(sVirtualPorts, o.id,
                              [channelId |-> o.id, pty |-> 0 - 1, linkPath |-> o.link])
                /\ optind' = optind + 1
                /\ UNCHANGED << mainpc, status >>
    /\ UNCHANGED << argv, mit, terminateProcess, phys_tty, fds, links, closed,
                    readVars, writeVars, envVars, tx, inq, pout, stdinKind, codec >>

\* A main that does not insist on a serial port argument
MainCheckChannelsOnly ==
    /\ mainpc = "getopt"
    /\ optind > Len(argv.opts)
    /\ IF Cardinality(DOMAIN sVirtualPorts) < 1
       THEN Exit(1)
       ELSE mainpc' = "open" /\ UNCHANGED status
    /\ UNCHANGED << argv, optind, mit, sVirtualPorts, terminateProcess, phys_tty,
                    fds, links, closed, readVars, writeVars, envVars, tx,
                    inq, pout, stdinKind, codec >>

\* After the options: at least one channel, and a serial port (lines 212-228).
MainCheckArgs ==
    /\ mainpc = "getopt"
    /\ optind > Len(argv.opts)
    /\ IF Cardinality(DOMAIN sVirtualPorts) < 1 \/ ~argv.port
       THEN Exit(1)
       ELSE mainpc' = "open" /\ UNCHANGED status
    /\ UNCHANGED << argv, optind, mit, sVirtualPorts, terminateProcess, phys_tty,
                    fds, links, closed, readVars, writeVars, envVars, tx,
                    inq, pout, stdinKind, codec >>

\* openPysicalPort and main's test of its result (lines 233-239, 302-320):
\* open() fails, or tcsetattr() fails on the opened port, or both succeed.
MainOpenPort ==
    /\ mainpc = "open"
    /\ \E r \in {"ok", "openfail", "cfgfail"} :
          IF r = "openfail"
          THEN /\ phys_tty' = 0 - 1
               /\ Exit(1)
               /\ UNCHANGED << fds, mit >>
          ELSE /\ phys_tty' = NewFd(fds)
               /\ fds' = fds \cup {NewFd(fds)}
               /\ IF r = "cfgfail"
                  THEN Exit(1) /\ UNCHANGED mit
                  ELSE /\ mainpc' = "pty"
                       /\ mit' = FirstKey(sVirtualPorts)
                       /\ UNCHANGED status
    /\ UNCHANGED << argv, optind, sVirtualPorts, terminateProcess, links, closed,
                    readVars, writeVars, envVars, tx, inq, pout, stdinKind, codec >>

\* One iteration of the loop that creates the virtual ports (lines 248-262)
\* with startPty (lines 342-378): posix_openpt() fails, or symlink() fails
\* after the pty was opened, or both succeed.
MainStartPty ==
    /\ mainpc = "pty"
    /\ mit # EndIt
    /\ LET chan == sVirtualPorts[mit]
           fd   == NewFd(fds)
       IN  \E r \in {"ok", "ptfail"} \cup (IF chan.linkPath # NoLink THEN {"linkfail"} ELSE {}) :
              IF r = "ptfail"
              THEN /\ Exit(1)
                   /\ UNCHANGED << sVirtualPorts, fds, links, mit >>
              ELSE /\ sVirtualPorts' = [sVirtualPorts EXCEPT ![mit].pty = fd]
                   /\ fds' = fds \cup {fd}
                   /\ IF r = "linkfail"
                      THEN Exit(1) /\ UNCHANGED << links, mit >>
                      ELSE /\ links' = IF chan.linkPath # NoLink
                                       THEN links \cup {chan.linkPath} ELSE links
                           /\ mit' = NextKey(sVirtualPorts, mit)
                           /\ mainpc' = IF NextKey(sVirtualPorts, mit) = EndIt
                                        THEN "startR" ELSE "pty"
                           /\ UNCHANGED status
    /\ UNCHANGED << argv, optind, terminateProcess, phys_tty, closed,
                    readVars, writeVars, envVars, tx, inq, pout, stdinKind, codec >>

\* std::thread readThd(readThread) (line 267)
MainStartRead ==
    /\ mainpc = "startR"
    /\ mainpc' = "startW"
    /\ rpc' = "while"
    /\ UNCHANGED << argv, optind, status, mit, sVirtualPorts, terminateProcess,
                    phys_tty, fds, links, closed, rcid, rtmp, rnbytes, rchan, rf,
                    writeVars, envVars, tx, inq, pout, stdinKind, codec >>

\* std::thread writeThd(writeThread) (line 268)
MainStartWrite ==
    /\ mainpc = "startW"
    /\ mainpc' = "wait"
    /\ wpc' = "while"
    /\ UNCHANGED << argv, optind, status, mit, sVirtualPorts, terminateProcess,
                    phys_tty, fds, links, closed, readVars, wit, lastW,
                    envVars, tx, inq, pout, stdinKind, codec >>

\* while (!terminateProcess) sleep (lines 279-282)
MainWait ==
    /\ mainpc = "wait"
    /\ terminateProcess
    /\ mainpc' = "joinR"
    /\ UNCHANGED << argv, optind, status, mit, sVirtualPorts, terminateProcess,
                    phys_tty, fds, links, closed, readVars, writeVars, envVars,
                    tx, inq, pout, stdinKind, codec >>

\* readThd.join() (line 287)
MainJoinRead ==
    /\ mainpc = "joinR"
    /\ rpc = "done"
    /\ mainpc' = "joinW"
    /\ UNCHANGED << argv, optind, status, mit, sVirtualPorts, terminateProcess,
                    phys_tty, fds, links, closed, readVars, writeVars, envVars,
                    tx, inq, pout, stdinKind, codec >>

\* A main that goes on to shutdownVPorts without waiting for writeThread
MainDetachWrite ==
    /\ mainpc = "joinW"
    /\ mainpc' = "shutdown"
    /\ UNCHANGED << argv, optind, status, mit, sVirtualPorts, terminateProcess,
                    phys_tty, fds, links, closed, readVars, writeVars, envVars,
                    tx, inq, pout, stdinKind, codec >>

\* writeThd.join() (line 288)
MainJoinWrite ==
    /\ mainpc = "joinW"
    /\ wpc = "done"
    /\ mainpc' = "shutdown"
    /\ UNCHANGED << argv, optind, status, mit, sVirtualPorts, terminateProcess,
                    phys_tty, fds, links, closed, readVars, writeVars, envVars,
                    tx, inq, pout, stdinKind, codec >>

\* The descriptors shutdownVPorts closes: chan.pty of every entry of the map
PtyFds(m) ==
    {m[k].pty : k \in DOMAIN m}

\* shutdownVPorts() and return EXIT_SUCCESS (lines 291-297, 382-396): every
\* entry's pty is closed and its link removed; phys_tty is not closed.
MainShutdown ==
    /\ mainpc = "shutdown"
    /\ closed' = closed \cup (PtyFds(sVirtualPorts) \cap fds)
    /\ fds' = fds \ PtyFds(sVirtualPorts)
    /\ links' = links \ {sVirtualPorts[k].linkPath : k \in DOMAIN sVirtualPorts}
    /\ Exit(0)
    /\ UNCHANGED << argv, optind, mit, sVirtualPorts, terminateProcess, phys_tty,
                    readVars, writeVars, envVars, tx, inq, pout, stdinKind, codec >>

\* exceptionHandler (lines 124-130), on SIGINT
Sigint ==
    /\ mainpc # "exit"
    /\ ~terminateProcess
    /\ terminateProcess' = TRUE
    /\ UNCHANGED << argv, mainpc, optind, status, mit, sVirtualPorts, phys_tty,
                    fds, links, closed, readVars, writeVars, envVars, tx,
                    inq, pout, stdinKind, codec >>

(***************************************************************************)
(* readThread (Ingress), lines 402-442.  The physical port is non-blocking *)
(* (O_NONBLOCK, VMIN = VTIME = 0): read(phys_tty, ., 1) returns one byte   *)
(* when the next byte of the line has arrived and nothing otherwise.       *)
(***************************************************************************)
allMain ==
    << argv, mainpc, optind, status, mit, phys_tty, fds, links, closed >>

peerVars ==
    << sent, nSent, nApp, nShort >>

\* The results a one-byte read of the physical port can have now: TRUE, the
\* next byte of the line has arrived and is returned; FALSE, nothing has
\* arrived yet (the read returns 0 or -1).
Arrived ==
    IF line # << >> THEN {TRUE, FALSE} ELSE {FALSE}

\* while (!terminateProcess) (line 406)
ReadWhile ==
    /\ rpc = "while"
    /\ rpc' = IF terminateProcess THEN "done" ELSE "cid"
    /\ UNCHANGED << allMain, sVirtualPorts, terminateProcess, rcid, rtmp, rnbytes,
                    rchan, rf, writeVars, envVars, tx, inq, pout, stdinKind, codec >>

\* A readThread that returns when the read of the channel id fails
ReadCidOrReturn ==
    /\ rpc = "cid"
    /\ \E got \in Arrived :
          IF got
          THEN /\ rcid' = Head(line)
               /\ line' = Tail(line)
               /\ rpc' = "len1"
               /\ rf' = [hdr |-> 0, got |-> 0, len |-> 0, unr |-> FALSE, st |-> "open", pay |-> << >>]
          ELSE /\ rpc' = "done"
               /\ UNCHANGED << rcid, line, rf >>
    /\ UNCHANGED << allMain, sVirtualPorts, terminateProcess, rtmp, rnbytes, rchan,
                    writeVars, peerVars, tx, inq, pout, stdinKind, codec >>

\* read(phys_tty, &cid, 1) != 1: sleep and continue (lines 414-418)
ReadCid ==
    /\ rpc = "cid"
    /\ \E got \in Arrived :
          IF got
          THEN /\ rcid' = Head(line)
               /\ line' = Tail(line)
               /\ rpc' = "len1"
               /\ rf' = [hdr |-> 0, got |-> 0, len |-> 0, unr |-> FALSE, st |-> "open", pay |-> << >>]
          ELSE /\ rpc' = "while"
               /\ UNCHANGED << rcid, line, rf >>
    /\ UNCHANGED << allMain, sVirtualPorts, terminateProcess, rtmp, rnbytes, rchan,
                    writeVars, peerVars, tx, inq, pout, stdinKind, codec >>

\* n = read(phys_tty, &tmp, 1); nbytes = (tmp & 0xFF) << 8 (lines 423-424).
\* n is not tested: when nothing has arrived tmp is read uninitialised.
ReadLen1 ==
    /\ rpc = "len1"
    /\ \E got \in Arrived :
          IF got
          THEN /\ rtmp' = Head(line)
               /\ line' = Tail(line)
               /\ rf' = [rf EXCEPT !.hdr = @ + 1]
          ELSE /\ rtmp' \in UninitBytes
               /\ UNCHANGED << line, rf >>
    /\ rnbytes' = LenHi(rtmp')
    /\ rpc' = "len2"
    /\ UNCHANGED << allMain, sVirtualPorts, terminateProcess, rcid, rchan,
                    writeVars, peerVars, tx, inq, pout, stdinKind, codec >>

\* n = read(phys_tty, &tmp, 1); nbytes += (tmp & 0xFF);
\* chan = &sVirtualPorts[cid] (lines 425-429).  n is not tested: when
\* nothing has arrived tmp keeps the value it had.
ReadLen2 ==
    /\ rpc = "len2"
    /\ \E got \in Arrived :
          LET b == IF got THEN Head(line) ELSE rtmp
          IN  /\ rtmp' = b
              /\ line' = IF got THEN Tail(line) ELSE line
              /\ rnbytes' = LenAdd(rnbytes, b)
              /\ rf' = [rf EXCEPT !.hdr = IF got THEN @ + 1 ELSE @,
                                  !.len = LenAdd(rnbytes, b),
                                  !.unr = rcid \notin DOMAIN sVirtualPorts]
    /\ sVirtualPorts' = Subscript(sVirtualPorts, rcid)
    /\ rchan' = rcid
    /\ rpc' = "paychk"
    /\ UNCHANGED << allMain, terminateProcess, rcid, writeVars, peerVars, tx, inq,
                    pout, stdinKind, codec >>

\* A payload loop that tests nbytes only
ReadPayChkNoFlag ==
    /\ rpc = "paychk"
    /\ IF rnbytes = 0
       THEN /\ rpc' = "while"
            /\ rf' = [rf EXCEPT !.st = "complete"]
       ELSE /\ Len(pout) < MaxOut
            /\ rpc' = "pay"
            /\ UNCHANGED rf
    /\ UNCHANGED << allMain, sVirtualPorts, terminateProcess, rcid, rtmp, rnbytes,
                    rchan, writeVars, envVars, tx, inq, pout, stdinKind, codec >>

\* while (!terminateProcess && nbytes) (line 432)
ReadPayChk ==
    /\ rpc = "paychk"
    /\ IF terminateProcess \/ rnbytes = 0
       THEN /\ rpc' = "while"
            /\ rf' = [rf EXCEPT !.st = IF rnbytes = 0 THEN "complete" ELSE "abandoned"]
       ELSE /\ Len(pout) < MaxOut
            /\ rpc' = "pay"
            /\ UNCHANGED rf
    /\ UNCHANGED << allMain, sVirtualPorts, terminateProcess, rcid, rtmp, rnbytes,
                    rchan, writeVars, envVars, tx, inq, pout, stdinKind, codec >>

\* A payload loop that writes tmp before it reads into it
ReadPayWriteFirst ==
    /\ rpc = "pay"
    /\ \E got \in Arrived :
          LET b == IF got THEN Head(line) ELSE rtmp
          IN  /\ rtmp' = b
              /\ line' = IF got THEN Tail(line) ELSE line
              /\ pout' = Append(pout, << sVirtualPorts[rchan].pty, rtmp >>)
              /\ rf' = [rf EXCEPT !.got = IF got THEN @ + 1 ELSE @,
                                  !.pay = IF got THEN Append(@, b) ELSE @]
    /\ rnbytes' = rnbytes - 1
    /\ rpc' = "paychk"
    /\ UNCHANGED << allMain, sVirtualPorts, terminateProcess, rcid, rchan,
                    writeVars, peerVars, tx, inq, stdinKind, codec >>

\* n = read(phys_tty, &tmp, 1); write(chan->pty, &tmp, 1); nbytes--
\* (lines 434-438).  n is not tested: tmp is written whether or not a byte
\* was read.
ReadPay ==
    /\ rpc = "pay"
    /\ \E got \in Arrived :
          LET b == IF got THEN Head(line) ELSE rtmp
          IN  /\ rtmp' = b
              /\ line' = IF got THEN Tail(line) ELSE line
              /\ pout' = Append(pout, << sVirtualPorts[rchan].pty, b >>)
              /\ rf' = [rf EXCEPT !.got = IF got THEN @ + 1 ELSE @,
                                  !.pay = IF got THEN Append(@, b) ELSE @]
    /\ rnbytes' = rnbytes - 1
    /\ rpc' = "paychk"
    /\ UNCHANGED << allMain, sVirtualPorts, terminateProcess, rcid, rchan,
                    writeVars, peerVars, tx, inq, stdinKind, codec >>

(***************************************************************************)
(* writeThread (Egress), lines 447-493.                                    *)
(***************************************************************************)
\* while (!terminateProcess), and the start of the for loop (lines 451, 459)
WriteWhile ==
    /\ wpc = "while"
    /\ IF terminateProcess
       THEN wpc' = "done" /\ UNCHANGED wit
       ELSE /\ wit' = FirstKey(sVirtualPorts)
            /\ wpc' = IF FirstKey(sVirtualPorts) = EndIt THEN "while" ELSE "for"
    /\ UNCHANGED << allMain, sVirtualPorts, terminateProcess, readVars, lastW,
                    envVars, tx, inq, pout, stdinKind, codec >>

\* A read that returns everything that is pending
ReadPtyUnbounded(q) ==
    q

\* tmp = read(chan.pty, buf, cMaxDataSize) (line 462): the bytes read from
\* a pty that holds q, at most cMaxDataSize of them
ReadPty(q) ==
    Take(q, cMaxDataSize)

\* What the physical port takes of the frame req = header \o payload when
\* the write numbered s (1..3 the header bytes, 4 the payload) is refused
\* or short with k payload bytes taken; s = 0: every write is taken whole.
Accepted(req, s, k) ==
    IF s = 0 THEN req
    ELSE IF s \in 1..3 THEN Without(req, s)
    ELSE Take(req, 3 + k)

\* if (tmp != nbytes) after the last write (line 479): the only result tested
Reported(n, s, k) ==
    s = 4 /\ k # n % 65536

\* The results read(chan.pty, ...) can have when no data is pending: "none"
\* for a pty (non-blocking: -1) and for a stdin at end of file (0); "block"
\* for descriptor 0 on a terminal, which is not non-blocking.
EmptyRead(fd) ==
    IF fd # 0 THEN {"none"}
    ELSE IF stdinKind = "unknown" THEN {"none", "block"}
    ELSE IF stdinKind = "eof" THEN {"none"}
    ELSE {}

\* A writeThread that tests terminateProcess after every endpoint, also
\* after one whose read returned nothing
WritePollCheckAlways ==
    /\ wpc = "for"
    /\ wit # EndIt
    /\ LET fd   == sVirtualPorts[wit].pty
           data == ReadPty(inq[fd])
           n    == Len(data)
           nxt  == NextKey(sVirtualPorts, wit)
       IN  IF n < 1
           THEN /\ \E r \in EmptyRead(fd) :
                      IF r = "block"
                      THEN /\ stdinKind' = "tty"
                           /\ UNCHANGED << wpc, wit, lastW >>
                      ELSE /\ stdinKind' = IF fd = 0 THEN "eof" ELSE stdinKind
                           /\ wit' = IF terminateProcess THEN EndIt ELSE nxt
                           /\ wpc' = IF terminateProcess \/ nxt = EndIt
                                     THEN "while" ELSE "for"
                           /\ lastW' = [NoPoll EXCEPT !.cid = wit, !.fd = fd,
                                                      !.txLen = Len(tx),
                                                      !.flag = terminateProcess]
                /\ UNCHANGED << tx, inq, nShort >>
           ELSE /\ \E s \in 0..4 : \E k \in {0, n - 1} :
                      /\ s # 0 => EnvEvents < MaxEnv
                      /\ s # 4 => k = 0
                      /\ LET req == EgressHeader(wit, n) \o Take(data, n % 65536)
                             acc == Accepted(req, s, k)
                         IN  /\ tx' = tx \o acc
                             /\ lastW' = [cid |-> wit, n |-> n, data |-> data,
                                          req |-> req, acc |-> acc, short |-> s,
                                          reported |-> Reported(n, s, k),
                                          txLen |-> Len(tx), fd |-> fd,
                                          flag |-> terminateProcess]
                      /\ nShort' = IF s # 0 THEN nShort + 1 ELSE nShort
                /\ inq' = [inq EXCEPT ![fd] = Drop(inq[fd], n)]
                /\ IF terminateProcess \/ nxt = EndIt
                   THEN wpc' = "while" /\ wit' = EndIt
                   ELSE wpc' = "for" /\ wit' = nxt
                /\ UNCHANGED stdinKind
    /\ UNCHANGED << allMain, sVirtualPorts, terminateProcess, readVars,
                    line, sent, nSent, nApp, pout, codec >>

\* The body of the for loop for the entry at wit, and the step to the next
\* entry (lines 459-490): tmp = read(chan.pty, buf, cMaxDataSize);
\* if (tmp < 1) continue; four writes to phys_tty, of which only the last
\* one's result is tested; then the termination check.
WritePoll ==
    /\ wpc = "for"
    /\ wit # EndIt
    /\ LET fd   == sVirtualPorts[wit].pty
           data == ReadPty(inq[fd])
           n    == Len(data)
           nxt  == NextKey(sVirtualPorts, wit)
       IN  IF n < 1
           THEN /\ \E r \in EmptyRead(fd) :
                      IF r = "block"
                      THEN /\ stdinKind' = "tty"
                           /\ UNCHANGED << wpc, wit, lastW >>
                      ELSE /\ stdinKind' = IF fd = 0 THEN "eof" ELSE stdinKind
                           /\ wit' = nxt
                           /\ wpc' = IF nxt = EndIt THEN "while" ELSE "for"
                           /\ lastW' = [NoPoll EXCEPT !.cid = wit, !.fd = fd,
                                                      !.txLen = Len(tx),
                                                      !.flag = terminateProcess]
                /\ UNCHANGED << tx, inq, nShort >>
           ELSE /\ \E s \in 0..4 : \E k \in {0, n - 1} :
                      /\ s # 0 => EnvEvents < MaxEnv
                      /\ s # 4 => k = 0
                      /\ LET req == EgressHeader(wit, n) \o Take(data, n % 65536)
                             acc == Accepted(req, s, k)
                         IN  /\ tx' = tx \o acc
                             /\ lastW' = [cid |-> wit, n |-> n, data |-> data,
                                          req |-> req, acc |-> acc, short |-> s,
                                          reported |-> Reported(n, s, k),
                                          txLen |-> Len(tx), fd |-> fd,
                                          flag |-> terminateProcess]
                      /\ nShort' = IF s # 0 THEN nShort + 1 ELSE nShort
                /\ inq' = [inq EXCEPT ![fd] = Drop(inq[fd], n)]
                /\ IF terminateProcess \/ nxt = EndIt
                   THEN wpc' = "while" /\ wit' = EndIt
                   ELSE wpc' = "for" /\ wit' = nxt
                /\ UNCHANGED stdinKind
    /\ UNCHANGED << allMain, sVirtualPorts, terminateProcess, readVars,
                    line, sent, nSent, nApp, pout, codec >>

(***************************************************************************)
(* The environment.                                                        *)
(***************************************************************************)
\* The peer multiplexer's writeThread puts a frame for channel c on the line.
PeerSend ==
    /\ rpc \notin {"off", "done"}
    /\ EnvEvents < MaxEnv
    /\ \E c \in PeerIds :
          LET payload == PeerPayload(c, nSent)
          IN  /\ line' = line \o EgressHeader(c, Len(payload)) \o payload
              /\ sent' = [sent EXCEPT ![c] = @ \o payload]
    /\ nSent' = nSent + 1
    /\ UNCHANGED << allMain, sVirtualPorts, terminateProcess, readVars, writeVars,
                    nApp, nShort, tx, inq, pout, stdinKind, codec >>

\* An application writes to the slave side of channel c's pty; for an
\* entry whose pty is descriptor 0, input is typed on the terminal.
AppWrite ==
    /\ wpc \notin {"off", "done"}
    /\ EnvEvents < MaxEnv
    /\ \E c \in DOMAIN sVirtualPorts :
          LET fd == sVirtualPorts[c].pty
          IN  /\ fd = 0 => stdinKind # "eof"
              /\ inq' = [inq EXCEPT ![fd] = @ \o AppPayload(c, nApp)]
              /\ stdinKind' = IF fd = 0 THEN "tty" ELSE stdinKind
    /\ nApp' = nApp + 1
    /\ UNCHANGED << allMain, sVirtualPorts, terminateProcess, readVars, writeVars,
                    line, sent, nSent, nShort, tx, pout, codec >>

(***************************************************************************)
(* The process and its environment.                                        *)
(***************************************************************************)
MainStep ==
    \/ MainGetopt
    \/ MainCheckArgs
    \/ MainOpenPort
    \/ MainStartPty
    \/ MainStartRead
    \/ MainStartWrite
    \/ MainWait
    \/ MainJoinRead
    \/ MainJoinWrite
    \/ MainShutdown

ReadStep ==
    \/ ReadWhile
    \/ ReadCid
    \/ ReadLen1
    \/ ReadLen2
    \/ ReadPayChk
    \/ ReadPay

WriteStep ==
    \/ WriteWhile
    \/ WritePoll

Next ==
    \/ MainGetopt
    \/ MainCheckArgs
    \/ MainOpenPort
    \/ MainStartPty
    \/ MainStartRead
    \/ MainStartWrite
    \/ MainWait
    \/ MainJoinRead
    \/ MainJoinWrite
    \/ MainShutdown
    \/ Sigint
    \/ ReadWhile
    \/ ReadCid
    \/ ReadLen1
    \/ ReadLen2
    \/ ReadPayChk
    \/ ReadPay
    \/ WriteWhile
    \/ WritePoll
    \/ PeerSend
    \/ AppWrite

Spec ==
    Init /\ [][Next]_vars

\* The scheduler runs every thread that can take a step; the environment
\* (signals, the peer, the applications) owes nothing.
SpecFair ==
    /\ Spec
    /\ WF_vars(MainStep)
    /\ WF_vars(ReadStep)
    /\ WF_vars(WriteStep)

(***************************************************************************)
(* The frame codec on its own: what writeThread writes for a payload read  *)
(* from an endpoint, and what readThread makes of those bytes when every   *)
(* one of them has arrived by the time it is read.                         *)
(***************************************************************************)
\* Channel ids and payload lengths the codec is exercised on: every id with
\* the lengths around the byte boundaries, and every length with a few ids.
CodecIds ==
    {0, 10, cMaxChannelId}

CodecLens ==
    {0, 1, 255, 256, 257, 511, 512, cMaxDataSize}

CodecPayload(c, n) ==
    [i \in 1..n |-> (c + i) % 256]

\* The payload loop of readThread (lines 432-439) when each read returns a
\* byte: the next nbytes bytes of the stream, in order
PayloadLoop(stream, nbytes) ==
    Take(stream, nbytes)

InitCodec ==
    /\ argv = [opts |-> << >>, port |-> FALSE]
    /\ InitProcess
    /\ \E c \in 0..cMaxChannelId, n \in 0..cMaxDataSize :
          /\ (c \in CodecIds \/ n \in CodecLens)
          /\ codec = [NoCodec EXCEPT !.st = "input", !.c = c,
                                     !.payload = CodecPayload(c, n)]

\* writeThread, lines 469-478, every write taken whole
CodecEncode ==
    /\ codec.st = "input"
    /\ codec' = [codec EXCEPT
                    !.st = "encoded",
                    !.frame = EgressHeader(codec.c, Len(codec.payload))
                              \o Take(codec.payload, Len(codec.payload) % 65536)]
    /\ UNCHANGED << allMain, sVirtualPorts, terminateProcess, readVars, writeVars,
                    envVars, tx, inq, pout, stdinKind >>

\* readThread, lines 414-439, every read returning a byte
CodecDecode ==
    /\ codec.st = "encoded"
    /\ LET nbytes == LenAdd(LenHi(codec.frame[2]), codec.frame[3])
       IN  codec' = [codec EXCEPT
                        !.st = "decoded",
                        !.dcid = codec.frame[1],
                        !.dlen = nbytes,
                        !.dpayload = PayloadLoop(Drop(codec.frame, 3), nbytes)]
    /\ UNCHANGED << allMain, sVirtualPorts, terminateProcess, readVars, writeVars,
                    envVars, tx, inq, pout, stdinKind >>

NextCodec ==
    \/ CodecEncode
    \/ CodecDecode

SpecCodec ==
    InitCodec /\ [][NextCodec]_vars

(***************************************************************************)
(* Definitions the properties share.                                       *)
(***************************************************************************)
Range(s) ==
    {s[i] : i \in 1..Len(s)}

IsPrefix(s, t) ==
    Len(s) <= Len(t) /\ s = SubSeq(t, 1, Len(s))

\* The channels configured on the command line whose pty startPty has opened
Endpoints ==
    {c \in DOMAIN sVirtualPorts : sVirtualPorts[c].pty >= 3}

\* The bytes readThread has written to descriptor fd, in order
Output(fd) ==
    LET w == SelectSeq(pout, LAMBDA e : e[1] = fd)
    IN  [i \in 1..Len(w) |-> w[i][2]]

\* Both threads have been started
EngineStarted ==
    rpc # "off" /\ wpc # "off"

(***************************************************************************)
(* C1.  Isolation: every byte readThread writes to the endpoint of a       *)
(* registered channel comes from a payload the peer's writeThread read     *)
(* from its endpoint of the same channel; a payload of channel A never     *)
(* reaches channel B's endpoint.  Stated as the claim states it; the code  *)
(* violates it.                                                            *)
(***************************************************************************)
C1_Isolation ==
    \A c \in Endpoints \cap PeerIds :
        Range(Output(sVirtualPorts[c].pty)) \subseteq Range(sent[c])

(***************************************************************************)
(* C2.  Exact delivery: what readThread has written to a registered        *)
(* channel's endpoint is, at every moment, the beginning of the            *)
(* concatenation of that channel's payloads in line order, and all of it   *)
(* once every byte of the line has been read and the frame handled.  Stated*)
(* as the claim states it; the code violates it.                           *)
(***************************************************************************)
C2_ExactDelivery ==
    \A c \in Endpoints \cap PeerIds :
        /\ IsPrefix(Output(sVirtualPorts[c].pty), sent[c])
        /\ (line = << >> /\ rpc \in {"while", "cid"})
              => Output(sVirtualPorts[c].pty) = sent[c]

(***************************************************************************)
(* C3.  An unroutable frame keeps the alignment: when readThread has       *)
(* handled a frame whose channel id was not registered and whose two       *)
(* length bytes it received, it has taken exactly the declared number of   *)
(* payload bytes from the line.  Stated as the claim states it; the code   *)
(* violates it.                                                            *)
(***************************************************************************)
C3_UnroutableAlignment ==
    (rf.st = "complete" /\ rf.unr /\ rf.hdr = 2) => rf.got = rf.len

(***************************************************************************)
(* C4.  Codec round trip: for a channel id c and a payload of n <= 1000    *)
(* bytes, decoding the bytes writeThread writes gives back c, n and the    *)
(* payload.                                                                *)
(***************************************************************************)
C4_RoundTrip ==
    codec.st = "decoded" =>
        /\ codec.dcid = codec.c
        /\ codec.dlen = Len(codec.payload)
        /\ codec.dpayload = codec.payload

C4_Witness ==
    /\ codec.st = "decoded"
    /\ codec.c = cMaxChannelId
    /\ Len(codec.payload) = cMaxDataSize
    /\ codec.dpayload = codec.payload

(***************************************************************************)
(* C5.  Egress framing: when the read of an endpoint returns n > 0 bytes,  *)
(* writeThread hands the physical port exactly channel id, high byte of n, *)
(* low byte of n and the n bytes read, and these are the bytes the port    *)
(* receives when it takes every write whole; when the read returns nothing *)
(* writeThread puts no byte on the port.                                   *)
(***************************************************************************)
C5_EgressFraming ==
    /\ lastW.n > 0 =>
          /\ Len(lastW.req) = 3 + lastW.n
          /\ lastW.req[1] = lastW.cid
          /\ lastW.req[2] \in 0..255 /\ lastW.req[3] \in 0..255
          /\ lastW.req[2] * 256 + lastW.req[3] = lastW.n
          /\ SubSeq(lastW.req, 4, Len(lastW.req)) = lastW.data
          /\ lastW.short = 0 => SubSeq(tx, lastW.txLen + 1, Len(tx)) = lastW.req
    /\ lastW.n < 1 => (Len(tx) = lastW.txLen /\ lastW.req = << >>)

\* Channels 10 and 20 registered, five bytes read from channel 10's endpoint
\* and none from channel 20's: exactly one frame is on the port.
C5_Witness ==
    /\ lastW.cid = 20 /\ lastW.n = 0
    /\ tx = << 10, 0, 5, 111, 112, 113, 114, 115 >>

(***************************************************************************)
(* C6.  Shutdown termination: once terminateProcess is true and the two    *)
(* threads have been started, both readThread and writeThread return       *)
(* (so that both joins of main complete), whatever each was doing.  Stated *)
(* as the claim states it; the code violates it.                           *)
(***************************************************************************)
C6_ShutdownTermination ==
    (terminateProcess /\ EngineStarted) ~> (rpc = "done" /\ wpc = "done")

(***************************************************************************)
(* C7.  Release ordering: while readThread or writeThread is running no    *)
(* descriptor has been closed by main and the physical port is open;       *)
(* whatever shutdownVPorts has closed, it closed after both threads had    *)
(* returned.                                                               *)
(***************************************************************************)
Running ==
    rpc \notin {"off", "done"} \/ wpc \notin {"off", "done"}

C7_ReleaseOrdering ==
    /\ Running => (closed = {} /\ phys_tty \in fds /\ mainpc # "exit")
    /\ closed # {} => (rpc = "done" /\ wpc = "done")

C7_Witness ==
    /\ closed # {}
    /\ mainpc = "exit" /\ status = 0
    /\ rpc = "done" /\ wpc = "done"

(***************************************************************************)
(* C8.  Egress fairness: when the endpoint of a registered channel has     *)
(* data pending and writeThread is running, writeThread eventually takes   *)
(* that data and writes its frame, unless the shutdown flag is set.        *)
(* Stated as the claim states it; the code violates it.                    *)
(***************************************************************************)
Pending(c) ==
    /\ c \in DOMAIN sVirtualPorts
    /\ sVirtualPorts[c].pty \in DOMAIN inq
    /\ inq[sVirtualPorts[c].pty] # << >>

C8_EgressFairness ==
    \A c \in {10, 20} :
        (Pending(c) /\ wpc \notin {"off", "done"})
            ~> (~Pending(c) \/ terminateProcess)

(***************************************************************************)
(* C9.  Registry immutability: from the start of readThread until both     *)
(* threads have returned, no step changes the set of entries of            *)
(* sVirtualPorts.  Stated as the claim states it; the code violates it.    *)
(***************************************************************************)
C9_RegistryImmutable ==
    [][(rpc # "off" /\ ~(rpc = "done" /\ wpc = "done"))
          => DOMAIN sVirtualPorts' = DOMAIN sVirtualPorts]_vars

(***************************************************************************)
(* C10.  Duplicate channel ids.  As the claim states it: once main has     *)
(* parsed a second -c option with an id that an earlier one registered, it *)
(* exits with failure and starts no thread.  The code violates that; what  *)
(* it does is stated next.                                                 *)
(***************************************************************************)
\* An option main has parsed repeats the id of an earlier one
DupSeen ==
    \E i, j \in 1..(optind - 1) :
        i < j /\ j <= Len(argv.opts) /\ argv.opts[i].id = argv.opts[j].id

C10_DuplicateRejected ==
    DupSeen => (mainpc = "exit" /\ status = 1 /\ rpc = "off" /\ wpc = "off")

\* The first option of the command line that names channel id
FirstOpt(id) ==
    Min({i \in 1..Len(argv.opts) : argv.opts[i].id = id})

\* C10, as the code has it: a -c option whose id is already registered is
\* not an error.  Every option parsed so far has an entry, and the entry is
\* the one made for the first option with that id (its link path); main
\* leaves the option loop early only for -h or an id outside 0..255.
C10_FirstOptionKept ==
    /\ \A i \in 1..(optind - 1) :
          i <= Len(argv.opts) =>
             LET o == argv.opts[i]
             IN  /\ o.id \in DOMAIN sVirtualPorts
                 /\ sVirtualPorts[o.id].channelId = o.id
                 /\ sVirtualPorts[o.id].linkPath = argv.opts[FirstOpt(o.id)].link
    /\ (mainpc = "exit" /\ optind <= Len(argv.opts)) =>
          LET o == argv.opts[optind]
          IN  o.kind = "h" \/ o.id > cMaxChannelId \/ o.id < 0

C10_Witness ==
    /\ DupSeen
    /\ EngineStarted
    /\ sVirtualPorts[20].linkPath = "/tmp/ptyB"
    /\ Cardinality(DOMAIN sVirtualPorts) = 2

(***************************************************************************)
(* C11.  Polling order.  As the claim states it: writeThread starts each   *)
(* pass at the channel of the first -c option and goes on to the channel   *)
(* registered next.  The code violates that; what it does is stated next.  *)
(***************************************************************************)
\* The channel ids of the options in the order of registration
RegOrder ==
    LET first == {i \in 1..Len(argv.opts) : FirstOpt(argv.opts[i].id) = i}
    IN  [k \in 1..Cardinality(first) |->
            argv.opts[CHOOSE i \in first : Cardinality({j \in first : j <= i}) = k].id]

RegPosition(id) ==
    IF \E k \in 1..Len(RegOrder) : RegOrder[k] = id
    THEN CHOOSE k \in 1..Len(RegOrder) : RegOrder[k] = id
    ELSE 0

C11_InsertionOrder ==
    [][/\ (wpc = "while" /\ wpc' = "for") => wit' = RegOrder[1]
       /\ (wpc = "for" /\ wpc' = "for" /\ wit' # wit)
             => RegPosition(wit') = RegPosition(wit) + 1]_vars

\* C11, as the code has it: a pass starts at the smallest channel id of the
\* registry and each poll is followed by the poll of the next greater id
\* present, whatever the order of the -c options; the pass ends after the
\* greatest id (or at a break on the shutdown flag).
C11_KeyOrder ==
    [][/\ (wpc = "while" /\ wpc' = "for")
             => (wit' \in DOMAIN sVirtualPorts
                 /\ \A k \in DOMAIN sVirtualPorts : wit' <= k)
       /\ (wpc = "for" /\ wpc' = "for" /\ wit' # wit)
             => (wit' \in DOMAIN sVirtualPorts /\ wit' > wit
                 /\ \A k \in DOMAIN sVirtualPorts : ~(wit < k /\ k < wit'))
       /\ (wpc = "for" /\ wpc' = "while")
             => (terminateProcess \/ \A k \in DOMAIN sVirtualPorts : k <= wit)]_vars

\* Channel 20 was registered before channel 10, and the pass has polled
\* channel 10 and is about to poll channel 20.
C11_Witness ==
    /\ RegOrder = << 20, 10 >>
    /\ wpc = "for" /\ wit = 20
    /\ lastW.cid = 10

(***************************************************************************)
(* writeThread on its own, after a startup with channels 10 and 20: the    *)
(* applications have written from nothing up to more than two buffers      *)
(* full to their ptys before the passes that are looked at.                *)
(***************************************************************************)
\* Numbers of bytes pending on a pty, around the size of writeThread's buf
PendingSizes ==
    {0, 1, 255, 256, cMaxDataSize - 1, cMaxDataSize, cMaxDataSize + 1,
     2 * cMaxDataSize + 1}

PendingBytes(fd, k) ==
    [i \in 1..k |-> (fd + i) % 256]

\* The state main leaves behind at line 269 for -c10 -c20 <port>, but for
\* what the line and the ptys hold
InitRunning ==
    /\ argv = [opts |-> << Opt(10, NoLink), Opt(20, NoLink) >>, port |-> TRUE]
    /\ mainpc = "wait"
    /\ optind = 3
    /\ status = 0 - 1
    /\ mit = EndIt
    /\ sVirtualPorts = (10 :> [channelId |-> 10, pty |-> 4, linkPath |-> NoLink]
                        @@ 20 :> [channelId |-> 20, pty |-> 5, linkPath |-> NoLink])
    /\ terminateProcess = FALSE
    /\ phys_tty = 3
    /\ fds = {0, 1, 2, 3, 4, 5}
    /\ links = {}
    /\ closed = {}
    /\ rpc = "while" /\ rcid = 0 /\ rnbytes = 0 /\ rchan = 0
    /\ rf = NoFrame
    /\ wpc = "while" /\ wit = EndIt
    /\ lastW = NoPoll
    /\ tx = << >>
    /\ pout = << >>
    /\ nApp = 0
    /\ nShort = 0
    /\ stdinKind = "unknown"
    /\ codec = NoCodec

InitEgress ==
    /\ InitRunning
    /\ rtmp = 0
    /\ line = << >>
    /\ sent = [c \in PeerIds |-> << >>]
    /\ nSent = 0
    /\ \E a, b \in PendingSizes :
          inq = [fd \in FdSet |-> IF fd = 4 THEN PendingBytes(4, a)
                                  ELSE IF fd = 5 THEN PendingBytes(5, b)
                                  ELSE << >>]

NextEgress ==
    \/ WriteWhile
    \/ WritePoll
    \/ Sigint

SpecEgress ==
    InitEgress /\ [][NextEgress]_vars

(***************************************************************************)
(* C12.  Egress length bound: whenever writeThread writes a frame, the     *)
(* length its header declares is the number of bytes read, and it is at    *)
(* least 1 and at most cMaxDataSize, however many bytes are pending on the *)
(* pty; a read that returns nothing produces no frame.                     *)
(***************************************************************************)
C12_EgressLengthBound ==
    /\ lastW.req # << >> =>
          /\ lastW.n \in 1..cMaxDataSize
          /\ lastW.req[2] * 256 + lastW.req[3] = lastW.n
          /\ Len(lastW.req) = 3 + lastW.n
    /\ lastW.n < 1 => lastW.req = << >>

\* More than a buffer full was pending: a frame of cMaxDataSize bytes was
\* written and one byte is left on the pty.
C12_Witness ==
    /\ lastW.n = cMaxDataSize
    /\ lastW.req[2] = 3 /\ lastW.req[3] = 232
    /\ Len(inq[lastW.fd]) = 1

(***************************************************************************)
(* C13.  Runtime errors are not fatal: readThread and writeThread return   *)
(* only when terminateProcess is true; a frame for an unregistered         *)
(* channel, a short or failed write and a read that returns nothing leave  *)
(* both loops running.                                                     *)
(***************************************************************************)
C13_LoopsEndOnlyOnFlag ==
    (rpc = "done" \/ wpc = "done") => terminateProcess

\* A write to the physical port has failed (the payload write returned 0
\* and was reported), an endpoint read has returned nothing since, and both
\* loops are still running with the flag false.
C13_Witness ==
    /\ nShort > 0
    /\ lastW.n < 1 /\ lastW.cid = 20
    /\ ~terminateProcess
    /\ rpc \notin {"off", "done"} /\ wpc \notin {"off", "done"}

\* A frame for an unregistered channel has been handled to its end and
\* both loops are still running with the flag false.
C13_WitnessUnroutable ==
    /\ rf.unr /\ rf.st = "complete"
    /\ ~terminateProcess
    /\ rpc \notin {"off", "done"} /\ wpc \notin {"off", "done"}

(***************************************************************************)
(* C14.  Short write surfaced: whenever one of the four writes writeThread *)
(* makes for a frame (channel id, the two length bytes, the payload) is    *)
(* taken short by the physical port, writeThread reports it; it writes     *)
(* nothing again and goes on.  Stated as the claim states it; the code     *)
(* violates it.                                                            *)
(***************************************************************************)
C14_ShortWriteSurfaced ==
    lastW.short # 0 =>
        /\ lastW.reported
        /\ SubSeq(tx, lastW.txLen + 1, Len(tx)) = lastW.acc

(***************************************************************************)
(* C15.  Configuration errors stop startup: when a channel id is outside   *)
(* 0..255, no channel or no serial port is given, the port cannot be       *)
(* opened or configured, or a pty cannot be set up, main returns           *)
(* EXIT_FAILURE and neither thread is ever started.                        *)
(***************************************************************************)
\* main has left the option loop at an option it refused
BadOption ==
    /\ mainpc = "exit"
    /\ optind <= Len(argv.opts)
    /\ argv.opts[optind].kind = "c"

\* main has returned before line 267
LeftStartup ==
    mainpc = "exit" /\ rpc = "off" /\ wpc = "off"

C15_ConfigErrorsStopStartup ==
    \* a failure status is a return before the threads exist
    /\ status = 1 => LeftStartup
    \* the only return before the threads exist that is not a failure is -h
    /\ (LeftStartup /\ status # 1)
          => (optind <= Len(argv.opts) /\ argv.opts[optind].kind = "h")
    \* channel id outside 0..255
    /\ BadOption => status = 1
    \* no channel, no serial port
    /\ (mainpc # "getopt" /\ ~BadOption /\ status # 0
          /\ (sVirtualPorts = << >> \/ ~argv.port)) => status = 1
    \* the port was not opened
    /\ (mainpc \notin {"getopt", "open"} /\ phys_tty < 0) => LeftStartup
    \* a pty was not set up
    /\ (\E c \in DOMAIN sVirtualPorts : sVirtualPorts[c].pty < 0)
          => (rpc = "off" /\ wpc = "off")

\* The port is open and channel 10's pty too, the symlink of channel 10
\* could not be made: main has returned EXIT_FAILURE, no thread exists.
C15_Witness ==
    /\ mainpc = "exit" /\ status = 1
    /\ phys_tty \in fds
    /\ 10 \in DOMAIN sVirtualPorts /\ sVirtualPorts[10].pty \in fds
    /\ links = {}
    /\ rpc = "off" /\ wpc = "off"

(***************************************************************************)
(* readThread on its own, after a startup with channels 10 and 20, for a   *)
(* choice of byte streams on the line; each read finds the next byte of    *)
(* the stream or nothing, as in Spec.                                      *)
(***************************************************************************)
\* A frame as writeThread writes it
Frame(c, payload) ==
    EgressHeader(c, Len(payload)) \o payload

\* The byte streams: what is on the line, and the payload the peer sent
\* for each channel
Streams ==
    { [line |-> Frame(10, << 97, 98, 99 >>),
       sent |-> (10 :> << 97, 98, 99 >> @@ 20 :> << >> @@ 30 :> << >>)],
      [line |-> Frame(30, << 90 >>) \o Frame(10, << 70 >>),
       sent |-> (10 :> << 70 >> @@ 20 :> << >> @@ 30 :> << 90 >>)],
      [line |-> Frame(20, << >>) \o Frame(10, << 70, 71 >>),
       sent |-> (10 :> << 70, 71 >> @@ 20 :> << >> @@ 30 :> << >>)],
      [line |-> Frame(10, << 70 >>) \o Frame(20, << 80 >>),
       sent |-> (10 :> << 70 >> @@ 20 :> << 80 >> @@ 30 :> << >>)],
      \* a header that declares cMaxDataSize + 1 bytes, and two of them
      [line |-> EgressHeader(20, cMaxDataSize + 1) \o << 80, 81 >>,
       sent |-> (10 :> << >> @@ 20 :> << 80, 81 >> @@ 30 :> << >>)],
      \* a header that declares the greatest length two bytes can hold
      [line |-> << 10, 255, 255, 70 >>,
       sent |-> (10 :> << 70 >> @@ 20 :> << >> @@ 30 :> << >>)],
      \* a dead or idle line
      [line |-> << >>,
       sent |-> (10 :> << >> @@ 20 :> << >> @@ 30 :> << >>)] }

InitIngress ==
    /\ InitRunning
    /\ rtmp \in UninitBytes
    /\ \E str \in Streams : line = str.line /\ sent = str.sent
    /\ nSent = 0
    /\ inq = [fd \in FdSet |-> << >>]

NextIngress ==
    \/ ReadWhile
    \/ ReadCid
    \/ ReadLen1
    \/ ReadLen2
    \/ ReadPayChk
    \/ ReadPay
    \/ Sigint

SpecIngress ==
    InitIngress /\ [][NextIngress]_vars

(***************************************************************************)
(* Definitions the properties of readThread share.                         *)
(***************************************************************************)
\* readThread is between the channel id and the end of the header
InHeader ==
    rf.st = "open" /\ rpc \in {"len1", "len2"}

\* The number of writes readThread has made for the current frame: one for
\* each time nbytes was decremented
FrameWrites ==
    IF rf.st = "none" \/ InHeader THEN 0 ELSE rf.len - rnbytes

\* Those writes: descriptor and byte
FrameOutput ==
    SubSeq(pout, Len(pout) - FrameWrites + 1, Len(pout))

\* readThread is past the header of a frame and received both length bytes
HeaderReceived ==
    rf.st # "none" /\ ~InHeader /\ rf.hdr = 2

\* Every read readThread made for the current frame returned a byte
FullyAvailable ==
    rf.st = "complete" /\ rf.hdr = 2 /\ rf.got = rf.len

(***************************************************************************)
(* C16.  Ingress routing when the frame is fully available: when every     *)
(* read of a frame for a registered channel returned a byte, readThread    *)
(* has written exactly the payload bytes, in order, to that channel's pty, *)
(* and has written to no other descriptor.                                 *)
(***************************************************************************)
C16_RoutingWhenAvailable ==
    (FullyAvailable /\ rcid \in Endpoints) =>
        /\ Len(rf.pay) = rf.len
        /\ FrameWrites = rf.len
        /\ FrameOutput = [i \in 1..rf.len |-> << sVirtualPorts[rcid].pty, rf.pay[i] >>]

\* The line held 0x0A 0x00 0x03 'a' 'b' 'c': channel 10's pty (descriptor
\* 4) has received a, b, c and nothing else was written.
C16_Witness ==
    /\ FullyAvailable
    /\ rcid = 10 /\ rf.pay = << 97, 98, 99 >>
    /\ pout = << << 4, 97 >>, << 4, 98 >>, << 4, 99 >> >>
    /\ line = << >>

(***************************************************************************)
(* C17.  Length bytes are retried: once readThread is past the header of   *)
(* a frame, both length bytes were received from the line, and the         *)
(* length it uses is the one they spell; a length-byte read that returns   *)
(* nothing is made again.  Stated as the claim states it; the code         *)
(* violates it.                                                            *)
(***************************************************************************)
C17_LengthBytesRetried ==
    /\ (rf.st # "none" /\ ~InHeader) => rf.hdr = 2
    /\ (rpc = "len2" /\ rf.st = "open") => rf.hdr = 1

(***************************************************************************)
(* C18.  Dead transport equals idle, also mid-frame: a read of the         *)
(* physical port that returns no byte is followed by no write to any       *)
(* descriptor, and in the payload loop it leaves the count of bytes still  *)
(* expected as it was.  Stated as the claim states it; the code violates   *)
(* it.                                                                     *)
(***************************************************************************)
\* readThread makes a read of the physical port and gets nothing
EmptyReadStep ==
    /\ rpc \in {"cid", "len1", "len2", "pay"}
    /\ rpc' # rpc
    /\ line' = line

C18_DeadTransportIdle ==
    [][EmptyReadStep => (pout' = pout /\ (rpc = "pay" => rnbytes' = rnbytes))]_vars

(***************************************************************************)
(* C19.  Ingress enforces the length ceiling: when the two length bytes    *)
(* readThread received declare more than cMaxDataSize bytes, readThread    *)
(* forwards no byte of that frame to any descriptor (looked at while every *)
(* read of the frame has returned a byte).  Stated as the claim  *)
(* states it; the code violates it.                                        *)
(***************************************************************************)
C19_LengthCeiling ==
    (HeaderReceived /\ rf.got = FrameWrites /\ rf.len > cMaxDataSize)
        => FrameWrites = 0

(***************************************************************************)
(* C20.  Unroutable payload is discarded: for a frame whose channel id was *)
(* not in sVirtualPorts when readThread looked it up, readThread makes no  *)
(* write to any descriptor (looked at while every read of the frame has    *)
(* returned a byte).  Stated as the claim states it; the code       *)
(* violates it.                                                            *)
(***************************************************************************)
C20_UnroutableDiscarded ==
    (HeaderReceived /\ rf.got = FrameWrites /\ rf.unr) => FrameWrites = 0

(***************************************************************************)
(* C21.  Fatal startup errors leave nothing open: when main has returned   *)
(* EXIT_FAILURE, the process holds no descriptor besides the standard      *)
(* three (no physical port, no pty) and no symlink it made is left.        *)
(* Stated as the claim states it; the code violates it.                    *)
(***************************************************************************)
C21_NothingLeftOpen ==
    (mainpc = "exit" /\ status = 1) => (fds = {0, 1, 2} /\ links = {})

(***************************************************************************)
(* Definitions the properties of writeThread's passes share.               *)
(***************************************************************************)
\* writeThread finishes the body of the for loop for the entry at wit
PollStep ==
    wpc = "for" /\ (wit' # wit \/ wpc' # wpc)

\* The read of that entry's pty returns data
HadData ==
    inq[sVirtualPorts[wit].pty] # << >>

(***************************************************************************)
(* C22.  Egress stops mid-pass.  As the claim states it: when              *)
(* terminateProcess is true at the end of the handling of an endpoint,     *)
(* with or without data, writeThread polls no further endpoint of the      *)
(* pass.  The code violates that; what it does is stated next.             *)
(***************************************************************************)
C22_StopsAfterEveryEndpoint ==
    [][(PollStep /\ terminateProcess) => (wpc' = "while" /\ wit' = EndIt)]_vars

\* C22, as the code has it: writeThread tests terminateProcess only after
\* an endpoint for which it wrote a frame, and then leaves the pass; after
\* an endpoint whose read returned nothing it goes on to the next entry of
\* the pass without a test, also when the flag is set, and sees the flag
\* at the next endpoint with data or at the end of the pass.
C22_StopsOnlyAfterFrame ==
    [][PollStep =>
          IF HadData
          THEN /\ terminateProcess => (wpc' = "while" /\ wit' = EndIt)
               /\ ~terminateProcess => wit' = NextKey(sVirtualPorts, wit)
          ELSE /\ wit' = NextKey(sVirtualPorts, wit)
               /\ wpc' = "while" <=> NextKey(sVirtualPorts, wit) = EndIt]_vars

\* The flag was set when writeThread found nothing on channel 10's pty,
\* and writeThread is about to poll channel 20 in the same pass.
C22_Witness ==
    /\ lastW.flag /\ lastW.n < 1 /\ lastW.cid = 10
    /\ wpc = "for" /\ wit = 20

(***************************************************************************)
(* C23.  One frame per endpoint per pass: the only step that writes to the *)
(* physical port is the handling of one entry, which reads that entry's    *)
(* pty once and writes at most one frame, with that entry's channel id;    *)
(* the handling of an entry is followed by that of an entry with a         *)
(* greater id or by the end of the pass, so that no entry is read twice in *)
(* a pass and the frames of a pass are on the port in iteration order; a   *)
(* pass ends, short of a shutdown, only when every entry has been handled, *)
(* and only then is the first entry read again.                            *)
(***************************************************************************)
C23_OneFramePerPass ==
    [][/\ PollStep =>
             /\ wit' > wit
             /\ lastW'.cid = wit
             /\ tx' = tx \o lastW'.acc
             /\ lastW'.req # << >> =>
                   (lastW'.req[1] = wit /\ Len(lastW'.req) = 3 + lastW'.n)
             /\ \A fd \in FdSet : fd # sVirtualPorts[wit].pty => inq'[fd] = inq[fd]
             /\ wpc' = "while" =>
                   (terminateProcess \/ \A k \in DOMAIN sVirtualPorts : k <= wit)
       /\ ~PollStep => tx' = tx
       /\ (wpc' = "for" /\ wpc # "for")
             => (wpc = "while" /\ \A k \in DOMAIN sVirtualPorts : wit' <= k)]_vars

\* Channel 10 is busy: a full frame was written for it and its pty holds
\* more; writeThread is about to poll channel 20.
C23_Witness ==
    /\ lastW.cid = 10 /\ lastW.n = cMaxDataSize
    /\ inq[sVirtualPorts[10].pty] # << >>
    /\ wpc = "for" /\ wit = 20

(***************************************************************************)
(* C24.  Handles are partitioned by operation: every descriptor readThread *)
(* has written to is the pty of a channel registered at startup, and so is *)
(* every descriptor writeThread has read; readThread reads and writeThread *)
(* writes the physical port only.  Stated as the claim states it; the code *)
(* violates it.                                                            *)
(***************************************************************************)
\* The ptys startPty opened for the channels of the command line
EndpointFds ==
    {sVirtualPorts[c].pty : c \in Endpoints}

C24_HandlesPartitioned ==
    /\ \A i \in 1..Len(pout) : pout[i][1] \in EndpointFds
    /\ lastW # NoPoll => lastW.fd \in EndpointFds
    /\ phys_tty \notin EndpointFds

(***************************************************************************)
(* C25.  Teardown is complete: when main has returned EXIT_SUCCESS after   *)
(* running the threads, it has closed the physical port and the pty of     *)
(* every registered channel.  Stated as the claim states it; the code      *)
(* violates it.                                                            *)
(***************************************************************************)
C25_TeardownComplete ==
    (mainpc = "exit" /\ status = 0 /\ EngineStarted) =>
        /\ EndpointFds \subseteq closed
        /\ phys_tty \in closed
        /\ phys_tty \notin fds

(***************************************************************************)
(* C26.  Egress only serves configured channels: every entry writeThread   *)
(* polls, and so every channel id it writes in a frame, is the id of a -c  *)
(* option, and the descriptor it reads is that channel's pty, also after   *)
(* readThread has received frames for other ids.  Stated as the claim      *)
(* states it; the code violates it.                                        *)
(***************************************************************************)
\* The channel ids the -c options name
ConfiguredIds ==
    {argv.opts[i].id : i \in 1..Len(argv.opts)}

C26_OnlyConfiguredChannels ==
    /\ wpc = "for" => wit \in ConfiguredIds
    /\ lastW # NoPoll => (lastW.cid \in ConfiguredIds /\ lastW.fd >= 3)
    /\ lastW.req # << >> => lastW.req[1] \in ConfiguredIds

(***************************************************************************)
(* Both threads running over a given line and given pending data, with a   *)
(* SIGINT that can arrive at any point: the state main has built for       *)
(* -c10:/tmp/ptyA -c20:/tmp/ptyB, the bytes of one stream on the line, one *)
(* byte pending on the pty of channel 10 and none on that of channel 20.   *)
(***************************************************************************)
ShutdownStreams ==
    {str \in Streams : str.line \in {Frame(10, << 97, 98, 99 >>),
                                     Frame(30, << 90 >>) \o Frame(10, << 70 >>)}}

InitShutdown ==
    /\ InitRunning
    /\ rtmp \in UninitBytes
    /\ \E str \in ShutdownStreams : line = str.line /\ sent = str.sent
    /\ nSent = 0
    /\ inq = [fd \in FdSet |-> IF fd = 4 THEN PendingBytes(4, 1) ELSE << >>]

NextShutdown ==
    \/ ReadWhile
    \/ ReadCid
    \/ ReadLen1
    \/ ReadLen2
    \/ ReadPayChk
    \/ ReadPay
    \/ WriteWhile
    \/ WritePoll
    \/ Sigint

SpecShutdown ==
    InitShutdown /\ [][NextShutdown]_vars

(***************************************************************************)
(* C27.  Bounded output after shutdown.  In every step taken with          *)
(* terminateProcess set: readThread writes only from the one position it   *)
(* had reached before (the write of line 436) and cannot reach it again,   *)
(* so it writes at most one more payload byte; a write of writeThread to   *)
(* the port is the whole frame of one poll and ends the pass, and from the *)
(* head of its while loop writeThread only returns, so it begins at most   *)
(* one frame; a thread that has returned stays returned; a frame left with *)
(* bytes outstanding is marked abandoned and nothing is written or         *)
(* consumed for it; what was written stays written.                        *)
(***************************************************************************)
C27_BoundedOutputAfterShutdown ==
    [][terminateProcess =>
          /\ pout' # pout =>
                (rpc = "pay" /\ rpc' = "paychk" /\ Len(pout') = Len(pout) + 1)
          /\ rpc # "pay" => rpc' # "pay"
          /\ rpc \in {"while", "done"} => rpc' \in {rpc, "done"}
          /\ (rpc = "paychk" /\ rpc' # rpc) =>
                /\ rpc' = "while" /\ pout' = pout /\ line' = line
                /\ rnbytes > 0 => rf'.st = "abandoned"
          /\ tx' # tx =>
                (wpc = "for" /\ wpc' = "while" /\ tx' = tx \o lastW'.acc)
          /\ wpc # "for" => wpc' # "for"
          /\ wpc \in {"while", "done"} => wpc' \in {wpc, "done"}
          /\ IsPrefix(pout, pout') /\ IsPrefix(tx, tx')]_vars

\* Both threads have returned; readThread left a three-byte frame after a
\* proper prefix of it, and writeThread sent one frame for a poll it made
\* with the flag already set.
C27_Witness ==
    /\ terminateProcess /\ rpc = "done" /\ wpc = "done"
    /\ rf.st = "abandoned" /\ rf.len = 3
    /\ rf.pay # << >> /\ Len(rf.pay) < rf.len
    /\ lastW.flag /\ lastW.n > 0 /\ tx # << >>

====
